---- MODULE Spec2Model ----
(***************************************************************************)
(* A model of the "Hide #ifdef Regions" extension (src/src/extension.ts,   *)
(* lines 12-474): the region cache, the directive scanner, the fold-block  *)
(* computation, the three-state visibility mode and the asynchronous       *)
(* handlers (activation, inactive-region notification, toggle command,     *)
(* active-editor switch, text edit, configuration change, deactivation)    *)
(* with their suspension points, the folding provider and the filter put   *)
(* on the language client's folding ranges.                                *)
(*                                                                         *)
(* Line numbers are 0-based as in the editor; TLA+ sequences are 1-based,  *)
(* so line i of a text t is t[i + 1].                                      *)
(***************************************************************************)
EXTENDS Integers, Sequences, FiniteSets, TLC

(***************************************************************************)
(* Bounds of the model.                                                    *)
(***************************************************************************)
\* Longest enumerated document of the fold-block specification, in lines.
MaxLines == 3
\* Largest line number a reported region may name in the fold-block specification.
MaxLine == 4
\* Longest region list of one notification in the fold-block specification.
MaxRegions == 2
\* Handler invocations (notifications, toggles, active-editor switches) per behaviour.
MaxHandlers == 3
\* In the life-cycle specification: handlers started per extension host, and restarts.
MaxLifeHandlers == 1
MaxRestarts == 1
\* Handlers started per behaviour in the specification with fair scheduling.
MaxFairHandlers == 2
\* Longest enumerated line of the directive-scanner specification, in characters.
MaxLineLen == 4
\* Longest folding-range list of the language client in the filter specification.
MaxRanges == 2

(***************************************************************************)
(* Text: a line is a sequence of one-character strings.                    *)
(***************************************************************************)
LineIf1 == <<"#", "i", "f", " ", "1">>
LineIntX == <<"i", "n", "t", " ", "x", ";">>
LineElse == <<"#", "e", "l", "s", "e">>
LineIntY == <<"i", "n", "t", " ", "y", ";">>
LineEndif == <<"#", "e", "n", "d", "i", "f">>

\* The document of the specification's scenario.
ScenarioText == <<LineIf1, LineIntX, LineElse, LineIntY, LineEndif>>

\* \s of the regular expression, restricted to the characters the texts use.
WhitespaceChars == {" ", "\t"}
\* \w of the regular expression, restricted to the characters the texts use.
WordChars == {"i", "f", "d", "e", "n", "l", "s", "t", "x", "y", "0", "1", "_"}
Keywords ==
  { <<"i", "f">>, <<"i", "f", "d", "e", "f">>, <<"i", "f", "n", "d", "e", "f">>,
    <<"e", "l", "i", "f">>, <<"e", "l", "s", "e">>, <<"e", "n", "d", "i", "f">> }

RECURSIVE SkipWhitespace(_, _)
\* \s* from position i: the first position at or after i that holds no whitespace.
SkipWhitespace(s, i) ==
  IF i <= Len(s) /\ s[i] \in WhitespaceChars THEN SkipWhitespace(s, i + 1) ELSE i

\* Keyword k stands at position i of s and a word boundary (\b) follows it.
KeywordAt(s, i, k) ==
  /\ i + Len(k) - 1 <= Len(s)
  /\ \A j \in 1..Len(k) : s[i + j - 1] = k[j]
  /\ (i + Len(k) > Len(s) \/ s[i + Len(k)] \notin WordChars)

\* The expression with the "#" made optional: /^\s*#?\s*(if|...|endif)\b/
PREPROCESSOR_REGEX_OptionalHash(s) ==
  LET i == SkipWhitespace(s, 1)
      j == IF i <= Len(s) /\ s[i] = "#" THEN SkipWhitespace(s, i + 1) ELSE i
  IN  \E k \in Keywords : KeywordAt(s, j, k)

\* PREPROCESSOR_REGEX.test(s): /^\s*#\s*(if|ifdef|ifndef|elif|else|endif)\b/
PREPROCESSOR_REGEX(s) ==
  LET i == SkipWhitespace(s, 1)
  IN  /\ i <= Len(s)
      /\ s[i] = "#"
      /\ LET j == SkipWhitespace(s, i + 1)
         IN  \E k \in Keywords : KeywordAt(s, j, k)

\* The lines of text t that the directive expression matches.
DirectiveLines(t) == {i \in 0..(Len(t) - 1) : PREPROCESSOR_REGEX(t[i + 1])}

(***************************************************************************)
(* Ranges.  An LSP range is taken as received; vscode.Range orders its two *)
(* positions (the constructor swaps them when start is after end).         *)
(***************************************************************************)
Position(l, c) == [line |-> l, character |-> c]
LspRange(sl, sc, el, ec) == [start |-> Position(sl, sc), end |-> Position(el, ec)]

IsBeforeOrEqual(p, q) ==
  p.line < q.line \/ (p.line = q.line /\ p.character <= q.character)

Range(p, q) ==
  IF IsBeforeOrEqual(p, q) THEN [start |-> p, end |-> q] ELSE [start |-> q, end |-> p]

\* params.regions.map(region => new vscode.Range(...))
MapRegions(regions) ==
  [i \in 1..Len(regions) |-> Range(regions[i].start, regions[i].end)]

(***************************************************************************)
(* collectHiddenFoldingRanges                                              *)
(***************************************************************************)
\* A scan that stops one line short of each range's end line.
HiddenLinesEndExclusive(t, inactiveRanges) ==
  UNION {inactiveRanges[i].start.line .. (inactiveRanges[i].end.line - 1) :
           i \in 1..Len(inactiveRanges)}
    \cup DirectiveLines(t)

\* The lines the decoration hides: every line of every range and the directive lines.
HiddenLines(t, inactiveRanges) ==
  UNION {inactiveRanges[i].start.line .. inactiveRanges[i].end.line :
           i \in 1..Len(inactiveRanges)}
    \cup DirectiveLines(t)

RECURSIVE SortAscending(_)
\* [...hiddenLines].sort((a, b) => a - b)
SortAscending(S) ==
  IF S = {} THEN <<>>
  ELSE LET m == CHOOSE x \in S : \A y \in S : x <= y
       IN  <<m>> \o SortAscending(S \ {m})

FoldingRange(s, e) == [start |-> s, end |-> e]

\* A push that also emits single-line blocks.
EmitBlockAlways(acc, blockStart, blockEnd) ==
  Append(acc, FoldingRange(blockStart, blockEnd))

\* The push of a block, made only when the block spans at least 2 lines.
EmitBlock(acc, blockStart, blockEnd) ==
  IF blockEnd > blockStart THEN Append(acc, FoldingRange(blockStart, blockEnd)) ELSE acc

RECURSIVE GroupBlocks(_, _, _, _, _)
\* The scan over the sorted lines from index i with the running block.
GroupBlocks(sorted, i, blockStart, blockEnd, acc) ==
  IF i > Len(sorted) THEN EmitBlock(acc, blockStart, blockEnd)
  ELSE IF sorted[i] = blockEnd + 1
       THEN GroupBlocks(sorted, i + 1, blockStart, sorted[i], acc)
       ELSE GroupBlocks(sorted, i + 1, sorted[i], sorted[i],
                        EmitBlock(acc, blockStart, blockEnd))

collectHiddenFoldingRanges(t, inactiveRanges) ==
  LET hiddenLines == HiddenLines(t, inactiveRanges)
  IN  IF hiddenLines = {} THEN <<>>
      ELSE LET sorted == SortAscending(hiddenLines)
           IN  GroupBlocks(sorted, 2, sorted[1], sorted[1], <<>>)

\* foldingRanges.map(r => r.start), as the set of lines a command selects.
SelectionLines(foldingRanges) == {foldingRanges[i].start : i \in 1..Len(foldingRanges)}

(***************************************************************************)
(* The editor's world: documents, views, configuration.                    *)
(***************************************************************************)
Docs == {"A", "B"}

\* document.uri.fsPath
DocFsPath(d) == IF d = "A" THEN "/w/Main.c" ELSE "/w/kernel.cu"
\* document.uri.scheme
DocScheme(d) == "file"
\* document.languageId: clangd also serves CUDA sources, which the extension does not decorate.
DocLanguageId(d) == IF d = "A" THEN "c" ELSE "cuda-cpp"

\* String.prototype.toLowerCase on the paths of the model.
ToLowerCase(p) == IF p = "/w/Main.c" THEN "/w/main.c" ELSE p

\* uri.fsPath.toLowerCase()
DocKey(d) == ToLowerCase(DocFsPath(d))
DocKeys == {DocKey(d) : d \in Docs}

\* The views the editor can show, in the order visibleTextEditors lists them.
EditorOrder == <<"e1", "e2">>
Editors == {EditorOrder[i] : i \in 1..Len(EditorOrder)}
\* editor.document
EditorDocument(e) == IF e = "e1" THEN "A" ELSE "B"

NoEditor == "none"
Undefined == "undefined"
Null == "null"
\* A key the map does not hold, and a key it holds ranges for.
NoEntry == [present |-> FALSE, ranges |-> <<>>]
Entry(ranges) == [present |-> TRUE, ranges |-> ranges]

\* The texts of the documents at start.
InitialText == [d \in Docs |-> IF d = "A" THEN ScenarioText ELSE <<LineEndif, LineIf1>>]

\* The region lists a notification may carry (LSP ranges as received; the last is reversed).
RegionLists ==
  { <<>>, <<LspRange(2, 0, 3, 6)>>, <<LspRange(1, 6, 0, 0)>> }

MODES == <<"visible", "hidden", "hiddenFolded">>
ModeSet == {MODES[i] : i \in 1..Len(MODES)}

\* Number.prototype.toString on the opacities of the model, given in hundredths.
OpacityToString(n) ==
  CASE n = 0 -> "0" [] n = 55 -> "0.55" [] n = 100 -> "1" [] OTHER -> "0.5"

VARIABLES
  mode,            \* $hideIfdefMode
  stored,          \* workspaceState value under WORKSPACE_MODE_KEY
  cache,           \* $inactiveRegionsMap: document key -> ranges, or NoEntry
  lastDecoration,  \* $lastDecoration: the live style (named by its opacity) or Null
  lastOpacity,     \* $lastOpacity
  decorated,       \* the views that hold a range list under the live style
  queue,           \* requests sent to the host and not yet answered, oldest first
  timers,          \* handlers waiting in the 100 ms delay, oldest first
  handlers,        \* slot 0: activation; slots 1..MaxHandlers: event handlers
  effects,         \* the effects of the last step, in the order they happened
  subscribed,      \* the notification handler is registered with the client
  registered,      \* the toggle command and the event handlers are registered
  visible,         \* vscode.window.visibleTextEditors
  active,          \* vscode.window.activeTextEditor
  folded,          \* per view: start lines collapsed by a fold command and not unfolded
  text,            \* per document: its lines
  config,          \* configuration: ifdef.mode, ifdef.opacity, clangd inactiveRegions.opacity
  clangdPresent,   \* the clangd extension exports a client
  lastNotified,    \* per document key: the regions of the notification that arrived last
  startMode,       \* the mode initialization chose
  styles,          \* the decoration types created: how many are live, the most that were
                   \* live at once, whether the one $lastDecoration refers to was
                   \* disposed, whether any was disposed twice
  deactivated,     \* deactivateIfDefHider has run in this extension host
  lastRun          \* the extension hosts that ended before this one, and the last one's mode

\* Variables of the fold-block specification.
VARIABLES
  argDocument,     \* the text passed to collectHiddenFoldingRanges
  argRegions,      \* the LSP regions of the notification
  retFolding,      \* the returned folding ranges
  pcFold,          \* "args" before the call, "returned" after it
  argRanges,       \* the folding ranges the language client's own provider returned
  retDirectives    \* the line numbers the directive expression matched

progVars ==
  <<mode, stored, cache, lastDecoration, lastOpacity, decorated, queue, timers,
    handlers, effects, subscribed, registered, styles>>
envVars == <<visible, active, folded, text, config, clangdPresent>>
ghostVars == <<lastNotified, startMode>>
foldVars == <<argDocument, argRegions, retFolding, pcFold, argRanges, retDirectives>>
lifeVars == <<deactivated, lastRun>>
vars == <<progVars, envVars, ghostVars, foldVars, lifeVars>>

(***************************************************************************)
(* Handlers.  A handler runs without interruption from one await to the    *)
(* next; while it waits, other handlers run.  The awaits that suspend are  *)
(* the requests to the host (editor.fold, editor.unfold, the workspace     *)
(* state update) and the 100 ms timer.  An await of an async function that *)
(* returned without suspending resumes in the same turn of the event loop, *)
(* before any other event is delivered, and is no step of its own.  The    *)
(* host answers requests in the order they were sent, and equal delays     *)
(* expire in the order they were set.                                      *)
(***************************************************************************)
HandlerIds == 0..MaxHandlers
ActivationId == 0
\* The frame of a handler that returns without ever waiting; it is gone with the step.
SyncId == MaxHandlers + 1

\* lastOp and did record what the handler has done so far; they are cleared with its
\* locals when it returns.
IdleHandler ==
  [kind |-> "none", pc |-> "idle", docKey |-> "", regions |-> <<>>, eds |-> <<>>,
   i |-> 0, lines |-> {}, previousMode |-> "", lastOp |-> "", did |-> {}]

\* The program's state as one value, threaded through the statements of a handler,
\* with the document texts and the configuration the handler reads.
Cur ==
  [mode |-> mode, stored |-> stored, cache |-> cache,
   lastDecoration |-> lastDecoration, lastOpacity |-> lastOpacity,
   decorated |-> decorated, queue |-> queue, timers |-> timers,
   hs |-> handlers, subscribed |-> subscribed, registered |-> registered,
   styles |-> styles, effects |-> <<>>, text |-> text, config |-> config]

\* An effect of a handler: which handler (its slot, its kind, the mode it started from,
\* the document key of its notification), what it did and what it had done just before,
\* on which view, with which lines or ranges, in which mode.
Effect(id, h, op, e, lines, ranges, m) ==
  [h |-> id, kind |-> h.kind, previousMode |-> h.previousMode, key |-> h.docKey,
   op |-> op, prev |-> h.lastOp, ed |-> e, lines |-> lines, ranges |-> ranges, mode |-> m,
   folding |-> <<>>]

LogRanges(S, id, op, e, ranges) ==
  [S EXCEPT !.effects = Append(@, Effect(id, S.hs[id], op, e, {}, ranges, S.mode)),
            !.hs[id].lastOp = op,
            !.hs[id].did = @ \cup {op}]

Log(S, id, op, e, lines) ==
  [S EXCEPT !.effects = Append(@, Effect(id, S.hs[id], op, e, lines, <<>>, S.mode)),
            !.hs[id].lastOp = op,
            !.hs[id].did = @ \cup {op}]

\* $inactiveRegionsMap.get(docKey) ?? []
CacheGet(c, key) == IF c[key].present THEN c[key].ranges ELSE <<>>

\* The language and scheme test of updateEditorDecoration and autoFoldHiddenRanges.
IsSupported(e) ==
  LET d == EditorDocument(e)
  IN  DocScheme(d) = "file" /\ (DocLanguageId(d) = "c" \/ DocLanguageId(d) = "cpp")

\* vscode.window.visibleTextEditors
VisibleTextEditors == SelectSeq(EditorOrder, LAMBDA e : e \in visible)

\* Every visible view, whatever its document.
AffectedEditorsAll(docKey) == VisibleTextEditors

\* visibleTextEditors.filter(e => e.document.uri.fsPath.toLowerCase() === docKey)
AffectedEditors(docKey) ==
  SelectSeq(VisibleTextEditors, LAMBDA e : DocKey(EditorDocument(e)) = docKey)

\* collectHiddenFoldingRanges(editor.document, $inactiveRegionsMap.get(docKey) ?? [])
FoldingOf(S, e) ==
  collectHiddenFoldingRanges(S.text[EditorDocument(e)],
                             CacheGet(S.cache, DocKey(EditorDocument(e))))

\* vscode.commands.executeCommand / workspaceState.update: the request joins the host's queue.
SendRequest(S, id, kind, e, lines) ==
  [S EXCEPT !.queue = Append(@, [h |-> id, kind |-> kind, ed |-> e, lines |-> lines])]

Suspend(S, id, pc, i) == [S EXCEPT !.hs[id].pc = pc, !.hs[id].i = i]

\* The handler returns; its locals are gone.
Finish(S, id) ==
  [Log(S, id, "return", NoEditor, {})
     EXCEPT !.hs[id] = [IdleHandler EXCEPT !.kind = S.hs[id].kind, !.pc = "done"]]

getHideIfdefOpacity(S) == S.config.opacity
getClangdOpacity(S) == S.config.clangdOpacity

\* No decoration type has been created yet.
NoStyles == [live |-> 0, peak |-> 0, disposed |-> FALSE, twice |-> FALSE]

\* $lastDecoration?.dispose(): the type $lastDecoration refers to, if any, is disposed.
DisposeStyle(S) ==
  IF S.lastDecoration = Null THEN S
  ELSE IF S.styles.disposed THEN [S EXCEPT !.styles.twice = TRUE]
  ELSE [S EXCEPT !.styles.live = @ - 1, !.styles.disposed = TRUE, !.decorated = {}]

\* vscode.window.createTextEditorDecorationType({ opacity }), stored in $lastDecoration.
CreateStyle(S, opacity) ==
  [S EXCEPT !.lastDecoration = opacity,
            !.styles.live = @ + 1,
            !.styles.peak = IF S.styles.live + 1 > @ THEN S.styles.live + 1 ELSE @,
            !.styles.disposed = FALSE]

\* A getDecoration that creates the new type and leaves the old one undisposed.
getDecorationNoDispose(S) ==
  LET targetOpacity ==
        OpacityToString(IF S.mode # "visible" THEN S.config.opacity
                                                 ELSE S.config.clangdOpacity)
  IN  IF S.lastDecoration # Null /\ S.lastOpacity = targetOpacity THEN S
      ELSE [CreateStyle(S, targetOpacity) EXCEPT !.lastOpacity = targetOpacity]

getDecoration(S) ==
  LET targetOpacity ==
        OpacityToString(IF S.mode # "visible" THEN getHideIfdefOpacity(S)
                                                 ELSE getClangdOpacity(S))
  IN  IF S.lastDecoration # Null /\ S.lastOpacity = targetOpacity THEN S
      ELSE \* dispose() removes the old style's ranges from every view
           [CreateStyle(DisposeStyle(S), targetOpacity) EXCEPT !.lastOpacity = targetOpacity]

\* line.range of the lines the directive expression matches
PreprocessorRanges(t) ==
  LET lines == SortAscending(DirectiveLines(t))
  IN  [k \in 1..Len(lines) |->
         Range(Position(lines[k], 0), Position(lines[k], Len(t[lines[k] + 1])))]

\* A range list that leaves the inactive regions out whenever directives are hidden.
DecorationRangesDirectivesOnly(S, e) ==
  IF S.mode # "visible"
  THEN PreprocessorRanges(S.text[EditorDocument(e)])
  ELSE CacheGet(S.cache, DocKey(EditorDocument(e)))

\* The range list updateEditorDecoration hands to setDecorations.
DecorationRanges(S, e) ==
  LET inactiveRanges == CacheGet(S.cache, DocKey(EditorDocument(e)))
  IN  IF S.mode # "visible"
      THEN inactiveRanges \o PreprocessorRanges(S.text[EditorDocument(e)])
      ELSE inactiveRanges

\* updateEditorDecoration(editor, decorationType); a view that was closed takes no ranges.
updateEditorDecoration(S, id, e) ==
  IF ~IsSupported(e) THEN S
  ELSE LET S1 == IF e \in visible THEN [S EXCEPT !.decorated = @ \cup {e}] ELSE S
       IN  LogRanges(S1, id, "decorate", e, DecorationRanges(S, e))

RECURSIVE DecorateEach(_, _, _, _)
\* editors.forEach(editor => updateEditorDecoration(editor, getDecoration()))
DecorateEach(S, id, eds, i) ==
  IF i > Len(eds) THEN S
  ELSE DecorateEach(updateEditorDecoration(getDecoration(S), id, eds[i]), id, eds, i + 1)

RECURSIVE DecorateWith(_, _, _, _)
\* The calls of updateActiveEditor, all with the style fetched once.
DecorateWith(S, id, eds, i) ==
  IF i > Len(eds) THEN S
  ELSE DecorateWith(updateEditorDecoration(S, id, eds[i]), id, eds, i + 1)

\* updateActiveEditor: the active view first, then every other visible view.
updateActiveEditor(S, id) ==
  LET others == SelectSeq(VisibleTextEditors, LAMBDA e : e # active)
      order == IF active # NoEditor THEN <<active>> \o others ELSE others
  IN  DecorateWith(getDecoration(S), id, order, 1)

RECURSIVE AutoFoldLoop(_, _, _)
\* for (const editor of eds) { await autoFoldHiddenRanges(editor); } from index i, up
\* to the first call that reaches the delay.
AutoFoldLoop(S, id, i) ==
  LET h == S.hs[id]
  IN  IF i > Len(h.eds) THEN Finish(S, id)
      ELSE LET e == h.eds[i]
               foldingRanges == FoldingOf(S, e)
           IN  IF S.mode # "hiddenFolded" \/ ~IsSupported(e) \/ foldingRanges = <<>>
               THEN AutoFoldLoop(S, id, i + 1)
               ELSE [Suspend(Log(S, id, "compute", e, SelectionLines(foldingRanges)),
                             id, "foldDelay", i)
                       EXCEPT !.hs[id].lines = SelectionLines(foldingRanges),
                              !.timers = Append(@, id)]

\* A handler that appends the received regions to the entry instead of replacing it.
NotifyUpdateMerge(S, id) ==
  LET h == S.hs[id]
      S1 == LogRanges([S EXCEPT !.cache[h.docKey] =
                                  Entry(CacheGet(S.cache, h.docKey) \o h.regions)],
                      id, "write", NoEditor, h.regions)
      S2 == Log(S1, id, "fire", NoEditor, {})
  IN  AutoFoldLoop(DecorateEach(S2, id, h.eds, 1), id, 1)

\* A handler that redecorates before it has written the cache and fired the signal.
NotifyUpdateDecorateFirst(S, id) ==
  LET h == S.hs[id]
      S0 == DecorateEach(S, id, h.eds, 1)
      S1 == LogRanges([S0 EXCEPT !.cache[h.docKey] = Entry(h.regions)],
                      id, "write", NoEditor, h.regions)
      S2 == Log(S1, id, "fire", NoEditor, {})
  IN  AutoFoldLoop(S2, id, 1)

\* Cache write, signal, decoration and auto-fold of the notification handler.
NotifyUpdate(S, id) ==
  LET h == S.hs[id]
      S1 == LogRanges([S EXCEPT !.cache[h.docKey] = Entry(h.regions)],
                      id, "write", NoEditor, h.regions)
      S2 == Log(S1, id, "fire", NoEditor, {})
  IN  AutoFoldLoop(DecorateEach(S2, id, h.eds, 1), id, 1)

RECURSIVE NotifyUnfoldLoop(_, _, _)
\* The unfold loop of the notification handler from index i, up to its first await.
NotifyUnfoldLoop(S, id, i) ==
  LET h == S.hs[id]
  IN  IF i > Len(h.eds) THEN NotifyUpdate(S, id)
      ELSE LET oldRanges == CacheGet(S.cache, h.docKey)
               oldFolding ==
                 collectHiddenFoldingRanges(S.text[EditorDocument(h.eds[i])], oldRanges)
           IN  IF oldFolding # <<>>
               THEN Suspend(
                      Log(SendRequest(S, id, "unfold", h.eds[i], SelectionLines(oldFolding)),
                          id, "unfold", h.eds[i], SelectionLines(oldFolding)),
                      id, "unfoldWait", i)
               ELSE NotifyUnfoldLoop(S, id, i + 1)

\* The notification handler from its call to its first await.
NotifyStart(S, id, docKey, params) ==
  LET S1 == [S EXCEPT !.hs[id] =
               [IdleHandler EXCEPT !.kind = "notify", !.pc = "running",
                                   !.docKey = docKey,
                                   !.regions = MapRegions(params),
                                   !.eds = AffectedEditors(docKey),
                                   !.previousMode = S.mode]]
  IN  IF S.mode = "hiddenFolded" THEN NotifyUnfoldLoop(S1, id, 1) ELSE NotifyUpdate(S1, id)

\* MODES.indexOf(m), 0-based; -1 when m is no mode.
IndexOfMode(m) ==
  IF m \in ModeSet THEN CHOOSE k \in 0..(Len(MODES) - 1) : MODES[k + 1] = m ELSE -1

\* An advance that forgets the modulo and stays on the last mode.
NextModeNoWrap(m) ==
  MODES[(IF IndexOfMode(m) + 1 < Len(MODES) THEN IndexOfMode(m) + 1 ELSE IndexOfMode(m)) + 1]

\* MODES[(currentIndex + 1) % MODES.length]
NextMode(m) == MODES[((IndexOfMode(m) + 1) % Len(MODES)) + 1]

\* The fold loop of the toggle command: entered only in hiddenFolded mode, over the
\* views visible at that moment.
ToggleFoldPhase(S, id) ==
  IF S.mode = "hiddenFolded"
  THEN AutoFoldLoop([S EXCEPT !.hs[id].eds = VisibleTextEditors], id, 1)
  ELSE Finish(S, id)

RECURSIVE ToggleUnfoldLoop(_, _, _)
\* The unfold loop of the toggle command from index i, up to its first await.
ToggleUnfoldLoop(S, id, i) ==
  LET h == S.hs[id]
  IN  IF i > Len(h.eds) THEN ToggleFoldPhase(S, id)
      ELSE LET foldingRanges == FoldingOf(S, h.eds[i])
           IN  IF foldingRanges # <<>>
               THEN Suspend(
                      Log(SendRequest(S, id, "unfold", h.eds[i], SelectionLines(foldingRanges)),
                          id, "unfold", h.eds[i], SelectionLines(foldingRanges)),
                      id, "unfoldWait", i)
               ELSE ToggleUnfoldLoop(S, id, i + 1)

\* A toggle that goes on to fold and unfold without redecorating the views.
ToggleAfterPersistNoRefresh(S, id) ==
  LET S1 == Log(S, id, "fire", NoEditor, {})
  IN  IF S1.mode = "visible" /\ S1.hs[id].previousMode = "hiddenFolded"
      THEN ToggleUnfoldLoop([S1 EXCEPT !.hs[id].eds = VisibleTextEditors], id, 1)
      ELSE ToggleFoldPhase(S1, id)

\* The toggle command after the workspace state update was answered.
ToggleAfterPersist(S, id) ==
  LET S1 == updateActiveEditor(Log(S, id, "fire", NoEditor, {}), id)
  IN  IF S1.mode = "visible" /\ S1.hs[id].previousMode = "hiddenFolded"
      THEN ToggleUnfoldLoop([S1 EXCEPT !.hs[id].eds = VisibleTextEditors], id, 1)
      ELSE ToggleFoldPhase(S1, id)

\* A toggle that advances the mode and asks the host for nothing to be stored.
ToggleStartNoPersist(S, id) ==
  LET next == NextMode(S.mode)
      S1 == [S EXCEPT !.hs[id] = [IdleHandler EXCEPT !.kind = "toggle", !.pc = "running",
                                                     !.previousMode = S.mode],
                      !.mode = next]
      S2 == Log(S1, id, "advance", NoEditor, {})
      S3 == Log(SendRequest(S2, id, "persist", NoEditor, {}), id, "persist", NoEditor, {})
  IN  Suspend(S3, id, "persistWait", 0)

\* The toggle command from its call to the await of the workspace state update.
ToggleStart(S, id) ==
  LET next == NextMode(S.mode)
      S1 == [S EXCEPT !.hs[id] = [IdleHandler EXCEPT !.kind = "toggle", !.pc = "running",
                                                     !.previousMode = S.mode],
                      !.mode = next]
      S2 == Log(S1, id, "advance", NoEditor, {})
      S3 == Log(SendRequest([S2 EXCEPT !.stored = next], id, "persist", NoEditor, {}),
                id, "persist", NoEditor, {})
  IN  Suspend(S3, id, "persistWait", 0)

\* onDidChangeActiveTextEditor(editor) for an editor.
ActiveEditorChanged(S, id, e) ==
  LET S1 == [S EXCEPT !.hs[id] = [IdleHandler EXCEPT !.kind = "activeSwitch",
                                                     !.pc = "running",
                                                     !.eds = <<e>>,
                                                     !.previousMode = S.mode]]
  IN  AutoFoldLoop(updateEditorDecoration(getDecoration(S1), id, e), id, 1)

\* The activation with the subscription made whether or not there is a client.
ActivateRestSubscribeAlways(S, id) ==
  LET S1 == [S EXCEPT !.subscribed = TRUE, !.registered = TRUE]
      S2 == updateActiveEditor(S1, id)
  IN  AutoFoldLoop([S2 EXCEPT !.hs[id].eds = VisibleTextEditors], id, 1)

\* activateIfDefHider after initializeHideIfdefSetting: subscription, registrations,
\* first decoration and the auto-fold at startup.
ActivateRest(S, id) ==
  LET S1 == [S EXCEPT !.subscribed = clangdPresent, !.registered = TRUE]
      S2 == updateActiveEditor(S1, id)
  IN  AutoFoldLoop([S2 EXCEPT !.hs[id].eds = VisibleTextEditors], id, 1)

\* activateIfDefHider from its call to its first await that suspends.
ActivateStart(S, id) ==
  LET S1 == [S EXCEPT !.hs[id] = [IdleHandler EXCEPT !.kind = "activate", !.pc = "running",
                                                     !.previousMode = S.mode]]
  IN  IF S.stored # Undefined /\ S.stored \in ModeSet
      THEN ActivateRest([S1 EXCEPT !.mode = S.stored], id)
      ELSE Suspend(
             Log(SendRequest([S1 EXCEPT !.mode = config.mode, !.stored = config.mode],
                             id, "persist", NoEditor, {}),
                 id, "persist", NoEditor, {}),
             id, "persistWait", 0)

\* The handler continues after the host answered its request.
Resume(S, id, kind) ==
  LET h == S.hs[id]
  IN  CASE kind = "unfold" /\ h.kind = "notify" -> NotifyUnfoldLoop(S, id, h.i + 1)
        [] kind = "unfold" /\ h.kind # "notify" -> ToggleUnfoldLoop(S, id, h.i + 1)
        [] kind = "fold" -> AutoFoldLoop(S, id, h.i + 1)
        [] kind = "persist" /\ h.kind = "toggle" -> ToggleAfterPersist(S, id)
        [] OTHER -> ActivateRest(S, id)

\* What the host does to a view on editor.fold / editor.unfold with selectionLines.
HostEffect(f, c) ==
  IF c.kind = "fold" /\ c.ed \in visible THEN [f EXCEPT ![c.ed] = @ \cup c.lines]
  ELSE IF c.kind = "unfold" /\ c.ed \in visible THEN [f EXCEPT ![c.ed] = @ \ c.lines]
  ELSE f

\* After the delay autoFoldHiddenRanges issues editor.fold with the lines it computed before.
AutoFoldAfterDelay(S, id) ==
  LET h == S.hs[id]
  IN  Suspend(Log(SendRequest(S, id, "fold", h.eds[h.i], h.lines),
                  id, "fold", h.eds[h.i], h.lines),
              id, "foldWait", h.i)

Commit(S) ==
  /\ mode' = S.mode
  /\ stored' = S.stored
  /\ cache' = S.cache
  /\ lastDecoration' = S.lastDecoration
  /\ lastOpacity' = S.lastOpacity
  /\ decorated' = S.decorated
  /\ queue' = S.queue
  /\ timers' = S.timers
  /\ handlers' = S.hs
  /\ effects' = S.effects
  /\ subscribed' = S.subscribed
  /\ registered' = S.registered
  /\ styles' = S.styles

\* A handler that never waits runs in a frame of its own.
WithSync(S, kind) ==
  [S EXCEPT !.hs = @ @@ (SyncId :> [IdleHandler EXCEPT !.kind = kind, !.pc = "running",
                                                       !.previousMode = S.mode])]
DropSync(S) == [S EXCEPT !.hs = [id \in HandlerIds |-> S.hs[id]]]

\* A text-edit handler that drops the edited document's regions from the map.
TextDocumentChangedDropsEntry(S, d) ==
  LET S1 == WithSync([S EXCEPT !.cache[DocKey(d)] = NoEntry], "textEdit")
  IN  DropSync(Finish(IF active # NoEditor /\ EditorDocument(active) = d
                      THEN updateEditorDecoration(getDecoration(S1), SyncId, active)
                      ELSE S1,
                      SyncId))

\* onDidChangeTextDocument(event) for document d, after the text has changed.
TextDocumentChanged(S, d) ==
  LET S1 == WithSync(S, "textEdit")
  IN  DropSync(Finish(IF active # NoEditor /\ EditorDocument(active) = d
                      THEN updateEditorDecoration(getDecoration(S1), SyncId, active)
                      ELSE S1,
                      SyncId))

\* onDidChangeConfiguration(event), after the configuration has changed.
ConfigurationChanged(S, affectsIfdef) ==
  LET S1 == WithSync(S, "config")
  IN  DropSync(Finish(IF affectsIfdef THEN updateActiveEditor(S1, SyncId) ELSE S1, SyncId))

\* A provider that answers with the blocks in every mode.
provideFoldingRangesAlways(S, d) ==
  collectHiddenFoldingRanges(S.text[d], CacheGet(S.cache, DocKey(d)))

\* provideFoldingRanges(document) of the registered provider.
provideFoldingRanges(S, d) ==
  IF S.mode = "visible" THEN <<>>
  ELSE collectHiddenFoldingRanges(S.text[d], CacheGet(S.cache, DocKey(d)))

\* The host asks the provider for document d; the answer is logged as an effect.
FoldingRangesProvided(S, d) ==
  LET S1 == WithSync(S, "provider")
      x == [Effect(SyncId, S1.hs[SyncId], "provide", NoEditor, {}, <<>>, S1.mode)
              EXCEPT !.key = DocKey(d), !.folding = provideFoldingRanges(S1, d)]
  IN  DropSync([S1 EXCEPT !.effects = Append(@, x)])

\* deactivateIfDefHider, and the host disposing context.subscriptions and stopping the
\* client: no further event reaches the extension.
deactivateIfDefHider(S) ==
  [DisposeStyle(S) EXCEPT !.lastDecoration = Null,
                          !.cache = [k \in DocKeys |-> NoEntry],
                          !.subscribed = FALSE,
                          !.registered = FALSE]

FreeSlots == {id \in 1..MaxHandlers : handlers[id].pc = "idle"}
\* Slots are taken in order, so the slot number is the order of arrival.
NextSlot == CHOOSE id \in FreeSlots : \A other \in FreeSlots : id <= other

(***************************************************************************)
(* Actions                                                                 *)
(***************************************************************************)
\* The module-level state of a fresh extension host (l.34-40).
Fresh ==
  [mode |-> "hiddenFolded", cache |-> [k \in DocKeys |-> NoEntry],
   lastDecoration |-> Null, lastOpacity |-> "", decorated |-> {},
   queue |-> <<>>, timers |-> <<>>, hs |-> [id \in HandlerIds |-> IdleHandler],
   effects |-> <<>>, subscribed |-> FALSE, registered |-> FALSE, styles |-> NoStyles]

\* A window with no view open, nothing notified, no extension host ended before,
\* the extension host's mode being m.
WindowInMode(m) ==
  /\ mode = m
  /\ cache = Fresh.cache
  /\ lastDecoration = Fresh.lastDecoration
  /\ lastOpacity = Fresh.lastOpacity
  /\ decorated = Fresh.decorated
  /\ queue = Fresh.queue
  /\ timers = Fresh.timers
  /\ handlers = Fresh.hs
  /\ effects = Fresh.effects
  /\ subscribed = Fresh.subscribed
  /\ registered = Fresh.registered
  /\ styles = Fresh.styles
  /\ visible = {}
  /\ active = NoEditor
  /\ folded = [e \in Editors |-> {}]
  /\ text = InitialText
  /\ lastNotified = [k \in DocKeys |-> NoEntry]
  /\ startMode = Fresh.mode
  /\ deactivated = FALSE
  /\ lastRun = [n |-> 0, mode |-> "", toggles |-> 0]

FreshWindow == WindowInMode(Fresh.mode)

\* The state when the extension's module has been loaded and nothing has run.
Loaded ==
  /\ FreshWindow
  /\ stored \in {Undefined} \cup ModeSet
  /\ config \in [mode : ModeSet, opacity : {0}, clangdOpacity : {55}]
  \* The configured default matters only when nothing is stored.
  /\ stored # Undefined => config.mode = "visible"
  /\ clangdPresent \in BOOLEAN

Init ==
  /\ Loaded
  /\ argDocument = <<>>
  /\ argRegions = <<>>
  /\ retFolding = <<>>
  /\ pcFold = "unused"
  /\ argRanges = <<>>
  /\ retDirectives = {}

\* The host activates the extension.
Activate ==
  /\ handlers[ActivationId].pc = "idle"
  /\ LET S == ActivateStart(Cur, ActivationId)
     IN  Commit(S) /\ startMode' = S.mode
  /\ UNCHANGED <<envVars, lastNotified, foldVars, lifeVars>>

\* clangd sends textDocument/inactiveRegions for document d.
Notification(d, params) ==
  /\ subscribed
  /\ FreeSlots # {}
  /\ Commit(NotifyStart(Cur, NextSlot, DocKey(d), params))
  /\ lastNotified' = [lastNotified EXCEPT ![DocKey(d)] = Entry(MapRegions(params))]
  /\ UNCHANGED <<envVars, startMode, foldVars, lifeVars>>

\* The user runs ifdef.toggle.
Toggle ==
  /\ registered
  /\ FreeSlots # {}
  /\ Commit(ToggleStart(Cur, NextSlot))
  /\ UNCHANGED <<envVars, ghostVars, foldVars, lifeVars>>

\* The user moves the focus to visible view e; the handler runs once it is registered.
ChangeActiveEditor(e) ==
  /\ e \in visible
  /\ e # active
  /\ active' = e
  /\ IF registered
     THEN FreeSlots # {} /\ Commit(ActiveEditorChanged(Cur, NextSlot, e))
     ELSE Commit(Cur)
  /\ UNCHANGED <<visible, folded, text, config, clangdPresent, ghostVars, foldVars, lifeVars>>

\* A view opens.
OpenEditor(e) ==
  /\ e \notin visible
  /\ visible' = visible \cup {e}
  /\ Commit(Cur)
  /\ UNCHANGED <<active, folded, text, config, clangdPresent, ghostVars, foldVars, lifeVars>>

\* A view closes: its fold state and its decorations go with it.
CloseEditor(e) ==
  /\ e \in visible
  /\ visible' = visible \ {e}
  /\ active' = IF active = e THEN NoEditor ELSE active
  /\ folded' = [folded EXCEPT ![e] = {}]
  /\ Commit([Cur EXCEPT !.decorated = @ \ {e}])
  /\ UNCHANGED <<text, config, clangdPresent, ghostVars, foldVars, lifeVars>>

\* The host answers the oldest request; the handler that sent it continues.
HostAnswer ==
  /\ queue # <<>>
  /\ LET c == Head(queue)
     IN  /\ folded' = HostEffect(folded, c)
         /\ Commit(Resume([Cur EXCEPT !.queue = Tail(queue)], c.h, c.kind))
  /\ UNCHANGED <<visible, active, text, config, clangdPresent, ghostVars, foldVars, lifeVars>>

\* The oldest 100 ms timer expires.
TimerExpires ==
  /\ timers # <<>>
  /\ Commit(AutoFoldAfterDelay([Cur EXCEPT !.timers = Tail(timers)], Head(timers)))
  /\ UNCHANGED <<envVars, ghostVars, foldVars, lifeVars>>

Next ==
  \/ Activate
  \/ \E d \in Docs, params \in RegionLists : Notification(d, params)
  \/ Toggle
  \/ \E e \in Editors : ChangeActiveEditor(e)
  \/ \E e \in Editors : OpenEditor(e)
  \/ \E e \in Editors : CloseEditor(e)
  \/ HostAnswer
  \/ TimerExpires

Spec == Init /\ [][Next]_vars

(***************************************************************************)
(* The life-cycle specification: the same handlers, with text edits,       *)
(* configuration changes, folding-provider queries, deactivation and a     *)
(* restart of the extension host, from every stored and configured value.  *)
(***************************************************************************)
\* A value of ifdef.mode or of the stored key that is none of the modes.
NoMode == "on"

\* The texts an edit of a document can produce.
EditedTexts(d) ==
  IF d = "A" THEN {ScenarioText, <<LineIntX, LineIf1, LineElse, LineEndif, LineIntY>>}
  ELSE {InitialText[d]}

\* The configurations the user can set.
Configurations == [mode : {"visible"}, opacity : {0, 50}, clangdOpacity : {55}]

\* The life-cycle specification follows the view of the C document.
LifeEditors == {e \in Editors : IsSupported(e)}
LifeDocs == {EditorDocument(e) : e \in LifeEditors}

LifeInit ==
  /\ FreshWindow
  /\ stored \in {Undefined, NoMode} \cup ModeSet
  /\ config \in [mode : ModeSet \cup {NoMode}, opacity : {0}, clangdOpacity : {55}]
  /\ stored \in ModeSet => config.mode = "visible"
  /\ clangdPresent \in BOOLEAN
  /\ argDocument = <<>>
  /\ argRegions = <<>>
  /\ retFolding = <<>>
  /\ pcFold = "unused"
  /\ argRanges = <<>>
  /\ retDirectives = {}

\* Fewer than MaxLifeHandlers handlers have been started in this extension host.
LifeSlotFree ==
  Cardinality({id \in 1..MaxHandlers : handlers[id].pc # "idle"}) < MaxLifeHandlers

\* The user edits document d; the handler runs once it is registered.
TextEdit(d, t) ==
  /\ t # text[d]
  /\ text' = [text EXCEPT ![d] = t]
  /\ IF registered
     THEN Commit(TextDocumentChanged([Cur EXCEPT !.text = text'], d))
     ELSE Commit(Cur)
  /\ UNCHANGED <<visible, active, folded, config, clangdPresent, ghostVars, foldVars,
                 lifeVars>>

\* The user changes the settings; the handler runs once it is registered.
ChangeConfiguration(c) ==
  /\ c # config
  /\ config' = c
  /\ IF registered
     THEN Commit(ConfigurationChanged([Cur EXCEPT !.config = c],
                                      c.mode # config.mode \/ c.opacity # config.opacity))
     ELSE Commit(Cur)
  /\ UNCHANGED <<visible, active, folded, text, clangdPresent, ghostVars, foldVars,
                 lifeVars>>

\* The host queries the folding provider, registered for the languages c and cpp.
ProvideFoldingRanges(d) ==
  /\ registered
  /\ DocLanguageId(d) \in {"c", "cpp"}
  /\ Commit(FoldingRangesProvided(Cur, d))
  /\ UNCHANGED <<envVars, ghostVars, foldVars, lifeVars>>

\* The host deactivates the extension it had activated.
Deactivate ==
  /\ handlers[ActivationId].pc = "done"
  /\ ~deactivated
  /\ Commit(deactivateIfDefHider(Cur))
  /\ deactivated' = TRUE
  /\ UNCHANGED <<envVars, ghostVars, foldVars, lastRun>>

\* A new extension host starts for the same workspace: module state is fresh, the
\* workspace state and the configuration are kept, handlers of the old host are gone.
Restart ==
  /\ deactivated
  /\ lastRun.n < MaxRestarts
  /\ Commit(Fresh @@ [stored |-> stored])
  /\ lastRun' = [n |-> lastRun.n + 1, mode |-> mode,
                 toggles |-> Cardinality({id \in 1..MaxHandlers :
                                            handlers[id].kind = "toggle"})]
  /\ deactivated' = FALSE
  /\ startMode' = Fresh.mode
  /\ lastNotified' = [k \in DocKeys |-> NoEntry]
  /\ UNCHANGED <<envVars, foldVars>>

LifeNext ==
  \/ Activate
  \/ LifeSlotFree /\ \E d \in LifeDocs, params \in RegionLists : Notification(d, params)
  \/ LifeSlotFree /\ Toggle
  \/ LifeSlotFree /\ \E e \in LifeEditors : ChangeActiveEditor(e)
  \/ \E e \in LifeEditors : OpenEditor(e)
  \/ \E e \in LifeEditors : CloseEditor(e)
  \/ HostAnswer
  \/ TimerExpires
  \/ \E d \in LifeDocs : \E t \in EditedTexts(d) : TextEdit(d, t)
  \/ \E c \in Configurations : ChangeConfiguration(c)
  \/ \E d \in LifeDocs : ProvideFoldingRanges(d)
  \/ Deactivate
  \/ Restart

LifeSpec == LifeInit /\ [][LifeNext]_vars

(***************************************************************************)
(* Claims about the handlers (checked under Spec).                         *)
(***************************************************************************)
EffectSet == {effects[k] : k \in 1..Len(effects)}
InFlight(id) == handlers[id].pc \notin {"idle", "done"}
\* The lines a command computed now for view e would select.
CurrentLines(e) == SelectionLines(FoldingOf(Cur, e))

\* The place of each effect in the notification handler's sequence.
NotifyStep(op) ==
  CASE op = "" -> 0 [] op = "unfold" -> 1 [] op = "write" -> 2 [] op = "fire" -> 3
    [] op = "decorate" -> 4 [] op = "compute" -> 5 [] op = "fold" -> 5 [] OTHER -> 6

\* C1: the effects of one notification handler come in the order unfold (only when the
\* handler started in hiddenFolded mode, from the cache entry not yet overwritten),
\* cache write (the entry becomes the received regions), signal, decoration, fold
\* (computed in hiddenFolded mode from the entry after the write); no effect comes
\* before an earlier-numbered one, and the write and the signal happen once each.
C1_NotifyOrder ==
  \A x \in EffectSet :
    x.kind = "notify" =>
      /\ NotifyStep(x.prev) <= NotifyStep(x.op)
      /\ x.op = "unfold" =>
           /\ x.previousMode = "hiddenFolded"
           /\ x.prev \in {"", "unfold"}
           /\ x.lines = CurrentLines(x.ed)
           /\ "write" \notin handlers[x.h].did
      /\ x.op = "write" =>
           /\ x.prev \in {"", "unfold"}
           /\ cache[x.key] = Entry(x.ranges)
      /\ x.op = "fire" => x.prev = "write"
      /\ x.op = "decorate" => x.prev \in {"fire", "decorate"}
      /\ x.op = "compute" =>
           /\ x.mode = "hiddenFolded"
           /\ x.lines = CurrentLines(x.ed)
           /\ {"write", "fire"} \subseteq handlers[x.h].did
      /\ x.op = "fold" => {"write", "fire", "compute"} \subseteq handlers[x.h].did
      /\ x.op = "return" => x.prev \notin {"", "unfold", "write"}

\* A notification handler that unfolded, wrote, fired and decorated issues its fold.
C1_Witness ==
  \E x \in EffectSet :
    /\ x.kind = "notify"
    /\ x.op = "fold"
    /\ {"unfold", "write", "fire", "decorate", "compute"} \subseteq handlers[x.h].did

\* C2 (as claimed): once every handler has returned, the cache entry of each notified
\* document is the region list of the notification that arrived last.
C2_LastNotificationWins ==
  (\A id \in HandlerIds : ~InFlight(id)) =>
    \A k \in DocKeys : lastNotified[k].present => cache[k] = lastNotified[k]

\* C3 (as claimed): no two notification handlers for the same document are in progress
\* at the same time.
C3_NoConcurrentUpdates ==
  \A a, b \in 1..MaxHandlers :
    (a # b /\ handlers[a].kind = "notify" /\ handlers[b].kind = "notify"
       /\ InFlight(a) /\ InFlight(b))
      => handlers[a].docKey # handlers[b].docKey

\* The cycle as the claim states it.
CycleNext(m) ==
  CASE m = "visible" -> "hidden" [] m = "hidden" -> "hiddenFolded" [] OTHER -> "visible"

RECURSIVE CycleAdvance(_, _)
CycleAdvance(m, n) == IF n = 0 THEN m ELSE CycleAdvance(CycleNext(m), n - 1)

\* The toggle commands run so far.
ToggleCount == Cardinality({id \in 1..MaxHandlers : handlers[id].kind = "toggle"})

\* C4: each toggle advances the mode along visible -> hidden -> hiddenFolded -> visible,
\* so after n toggles the mode is n steps from the mode at startup, and after three
\* toggles it is the mode at startup again.
C4_ModeCycle ==
  handlers[ActivationId].pc # "idle" =>
    /\ mode = CycleAdvance(startMode, ToggleCount)
    /\ ToggleCount = 3 => mode = startMode
    /\ \A x \in EffectSet : x.op = "advance" => x.mode = CycleNext(x.previousMode)

\* Three toggles have run and the mode is the one the extension started in.
C4_Witness ==
  /\ ToggleCount = 3
  /\ mode = startMode
  /\ \A id \in HandlerIds : ~InFlight(id)

\* C5 (as claimed): when a toggle from hiddenFolded to visible returns, no visible view
\* has a block collapsed by the system.
C5_NothingCollapsedAfterToggle ==
  \A x \in EffectSet :
    (x.kind = "toggle" /\ x.op = "return" /\ x.previousMode = "hiddenFolded"
       /\ mode = "visible")
      => \A e \in visible : folded[e] = {}

\* C6 (as claimed): whenever a fold command is issued to the host the mode is
\* hiddenFolded.
C6_FoldOnlyInHiddenFolded ==
  \A x \in EffectSet : x.op = "fold" => mode = "hiddenFolded"

\* C7 (as claimed): in hiddenFolded mode, when a notification handler returns, every
\* block collapsed in a visible view of its document is a fold block computed from the
\* cache's current contents.
C7_NoStaleFold ==
  \A x \in EffectSet :
    (x.kind = "notify" /\ x.op = "return" /\ mode = "hiddenFolded")
      => \A e \in visible :
           DocKey(EditorDocument(e)) = x.key => folded[e] \subseteq CurrentLines(e)

\* The place of each effect in the toggle command's sequence.
ToggleStep(op) ==
  CASE op = "" -> 0 [] op = "advance" -> 1 [] op = "persist" -> 2 [] op = "fire" -> 3
    [] op = "decorate" -> 4 [] op = "unfold" -> 5 [] op = "compute" -> 5
    [] op = "fold" -> 5 [] OTHER -> 6

\* The order of a toggle's effects: advance, persist, signal, decoration of every
\* visible supported view, then unfold or fold computed from the cache as it is then.
ToggleOrder(x) ==
  /\ ToggleStep(x.prev) <= ToggleStep(x.op)
  /\ x.op = "advance" => x.prev = ""
  /\ x.op = "persist" => x.prev = "advance" /\ stored = x.mode
  /\ x.op = "fire" =>
       /\ x.prev = "persist"
       /\ \A e \in visible :
            IsSupported(e) =>
              \E y \in EffectSet : y.h = x.h /\ y.op = "decorate" /\ y.ed = e
  /\ x.op = "decorate" => x.prev \in {"fire", "decorate"}
  /\ x.op \in {"unfold", "compute"} =>
       /\ x.lines = CurrentLines(x.ed)
       /\ {"advance", "persist", "fire"} \subseteq handlers[x.h].did

\* C8 (as claimed): the order holds, a toggle issues unfold commands only on
\* hiddenFolded -> visible and fold commands only on hidden -> hiddenFolded.
C8_ToggleOrderOriginal ==
  \A x \in EffectSet :
    x.kind = "toggle" =>
      /\ ToggleOrder(x)
      /\ x.op = "unfold" => x.previousMode = "hiddenFolded"
      /\ x.op \in {"compute", "fold"} => x.previousMode = "hidden"

\* C8 (amended): the order holds, unfold commands are issued only by a toggle that
\* itself went hiddenFolded -> visible, and a toggle computes fold commands only while
\* the mode is hiddenFolded when it reaches its fold step, whichever transition it made
\* itself.
C8_ToggleOrder ==
  \A x \in EffectSet :
    x.kind = "toggle" =>
      /\ ToggleOrder(x)
      /\ x.op = "unfold" => x.previousMode = "hiddenFolded"
      /\ x.op = "compute" => x.mode = "hiddenFolded"

\* A toggle that did not itself enter hiddenFolded computes fold commands after it has
\* advanced, persisted, fired and redecorated.
C8_Witness ==
  \E x \in EffectSet :
    /\ x.kind = "toggle"
    /\ x.op = "compute"
    /\ x.previousMode # "hidden"
    /\ {"advance", "persist", "fire", "decorate"} \subseteq handlers[x.h].did

\* C11: a cache update is a full replace: the step in which a notification handler
\* writes leaves the entry of its document equal to the regions it received, whatever
\* the entry held before (so writing the same list twice, or an empty list, leaves
\* exactly that list), and touches no other entry; the write of a handler in the step
\* of its arrival writes the list of the notification that arrived; a document never
\* notified reads as the empty list.
C11_FullReplace ==
  /\ [](\A k \in DocKeys : ~lastNotified[k].present => CacheGet(cache, k) = <<>>)
  /\ [][\A x \in {effects'[k] : k \in 1..Len(effects')} :
          x.op = "write" =>
            /\ cache'[x.key] = Entry(x.ranges)
            /\ CacheGet(cache', x.key) = x.ranges
            /\ x.prev = "" => x.ranges = lastNotified'[x.key].ranges
            /\ \A k \in DocKeys \ {x.key} : cache'[k] = cache[k]]_vars

\* A notification with an empty list is written while an earlier notification for the
\* same document, which wrote a non-empty list, is still waiting to fold.
C11_Witness ==
  \E x \in EffectSet :
    /\ x.op = "write"
    /\ x.ranges = <<>>
    /\ cache[x.key] = Entry(<<>>)
    /\ \E a \in 1..MaxHandlers :
         /\ a # x.h
         /\ handlers[a].kind = "notify"
         /\ handlers[a].docKey = x.key
         /\ handlers[a].regions # <<>>
         /\ "write" \in handlers[a].did

RangeSet(ranges) == {ranges[k] : k \in 1..Len(ranges)}

\* The full-line ranges of the directive lines of text t.
DirectiveLineRanges(t) ==
  {[start |-> [line |-> l, character |-> 0],
    end |-> [line |-> l, character |-> Len(t[l + 1])]] : l \in DirectiveLines(t)}

\* C12: for the same text and cache, the ranges applied to a supported view in hidden
\* or hiddenFolded mode are a superset of those applied in visible mode: visible applies
\* exactly the cached regions, hidden and hiddenFolded exactly the cached regions and
\* the directive lines.
C12_DecorationSuperset ==
  /\ \A x \in EffectSet :
       x.op = "decorate" =>
         LET d == EditorDocument(x.ed)
             cached == RangeSet(CacheGet(cache, DocKey(d)))
         IN  /\ x.mode = "visible" => RangeSet(x.ranges) = cached
             /\ x.mode \in {"hidden", "hiddenFolded"} =>
                  RangeSet(x.ranges) = cached \cup DirectiveLineRanges(text[d])
             /\ cached \subseteq RangeSet(x.ranges)
  /\ \A e \in Editors, m \in {"hidden", "hiddenFolded"} :
       RangeSet(DecorationRanges([Cur EXCEPT !.mode = "visible"], e))
         \subseteq RangeSet(DecorationRanges([Cur EXCEPT !.mode = m], e))

\* A view is decorated in hidden mode with cached regions and directive lines, strictly
\* more than the cached regions.
C12_Witness ==
  \E x \in EffectSet :
    /\ x.op = "decorate"
    /\ x.mode = "hidden"
    /\ CacheGet(cache, DocKey(EditorDocument(x.ed))) # <<>>
    /\ RangeSet(x.ranges) # RangeSet(CacheGet(cache, DocKey(EditorDocument(x.ed))))

\* C13 (as claimed): every set-decoration call, fold command and unfold command is
\* issued for a supported view.
C13_SupportedViewsOnly ==
  \A x \in EffectSet : x.op \in {"decorate", "fold", "unfold"} => IsSupported(x.ed)

\* C14: a notification that arrives for a document with no visible view writes the
\* cache entry of that document and returns at once: no decoration, no fold and no
\* unfold, nothing left in the host's queue or waiting in a delay, in every mode.
C14_NoViewNoCommands ==
  \A x \in EffectSet :
    (x.kind = "notify" /\ x.prev = ""
       /\ \A e \in visible : DocKey(EditorDocument(e)) # x.key)
      => /\ x.op = "write"
         /\ cache[x.key] = Entry(x.ranges)
         /\ x.ranges = lastNotified[x.key].ranges
         /\ \A y \in EffectSet : y.h = x.h /\ y.op \in {"write", "fire", "return"}
         /\ \A k \in 1..Len(queue) : queue[k].h # x.h
         /\ \A k \in 1..Len(timers) : timers[k] # x.h
         /\ handlers[x.h].pc = "done"

\* In hiddenFolded mode, with the other document's view open, a notification with
\* regions arrives for a document that has no view.
C14_Witness ==
  \E x \in EffectSet :
    /\ x.kind = "notify"
    /\ x.op = "write"
    /\ x.prev = ""
    /\ x.ranges # <<>>
    /\ mode = "hiddenFolded"
    /\ visible # {}
    /\ \A e \in visible : DocKey(EditorDocument(e)) # x.key

(***************************************************************************)
(* The fold-block specification: collectHiddenFoldingRanges applied to     *)
(* every document of at most MaxLines lines (and to the scenario's) and    *)
(* every list of at most MaxRegions regions over the lines 0..MaxLine.     *)
(***************************************************************************)
RECURSIVE SeqsUpTo(_, _)
\* The sequences over S of length at most n.
SeqsUpTo(S, n) ==
  IF n = 0 THEN {<<>>}
  ELSE LET shorter == SeqsUpTo(S, n - 1)
       IN  shorter \cup {Append(q, x) : q \in shorter, x \in S}

FoldDocuments == SeqsUpTo({LineIf1, LineIntX}, MaxLines) \cup {ScenarioText}
\* Regions over the lines 0..MaxLine, and one whose positions arrive reversed.
FoldRegionSamples ==
  {LspRange(a, 0, b, 0) : a \in 0..MaxLine, b \in 0..MaxLine}

FoldRegions ==
  SeqsUpTo({r \in FoldRegionSamples : r.start.line <= r.end.line} \cup {LspRange(1, 3, 0, 0)},
           MaxRegions)

FoldInit ==
  /\ Loaded
  /\ stored = Undefined
  /\ config.mode = "visible"
  /\ clangdPresent
  /\ argDocument \in FoldDocuments
  /\ argRegions \in FoldRegions
  /\ retFolding = <<>>
  /\ pcFold = "args"
  /\ argRanges = <<>>
  /\ retDirectives = {}

\* The handler converts the regions and the fold blocks are computed from them.
CollectFolding ==
  /\ pcFold = "args"
  /\ retFolding' = collectHiddenFoldingRanges(argDocument, MapRegions(argRegions))
  /\ pcFold' = "returned"
  /\ UNCHANGED <<progVars, envVars, ghostVars, lifeVars, argDocument, argRegions, argRanges,
               retDirectives>>

FoldSpec == FoldInit /\ [][CollectFolding]_vars

(***************************************************************************)
(* Claims about the fold-block computation (checked under FoldSpec).       *)
(***************************************************************************)
\* C9: for any document and any list of inactive regions the returned blocks are
\* sorted strictly ascending by start line and every block has end > start.
C9_SortedNoShortBlock ==
  pcFold = "returned" =>
    /\ \A k \in 1..Len(retFolding) : retFolding[k].end > retFolding[k].start
    /\ \A k \in 1..(Len(retFolding) - 1) : retFolding[k].start < retFolding[k + 1].start

\* A call that returned two blocks, for a document with directives and two regions.
C9_Witness ==
  /\ pcFold = "returned"
  /\ Len(retFolding) >= 2
  /\ Len(argRegions) = 2
  /\ DirectiveLines(argDocument) # {}

\* The hidden lines as the claim states them: the directive lines and every line from
\* the start line to the end line, both inclusive, of every inactive region.
ClaimHidden(t, ranges) ==
  {l \in 0..(MaxLine + Len(t) + 1) :
     \/ l \in DirectiveLines(t)
     \/ \E k \in 1..Len(ranges) : ranges[k].start.line <= l /\ l <= ranges[k].end.line}

\* The maximal runs of at least 2 consecutive lines of H.
ClaimMaximalRuns(H) ==
  {r \in [start : H, end : H] :
     /\ r.start < r.end
     /\ \A l \in r.start..r.end : l \in H
     /\ (r.start - 1) \notin H
     /\ (r.end + 1) \notin H}

\* C10: the returned blocks are exactly the maximal runs of at least 2 consecutive
\* hidden lines: each block holds only hidden lines, the lines just outside it are not
\* hidden, blocks are disjoint and not adjacent, every hidden line with a hidden
\* neighbour lies in a block; the scenario's document with region 2-3 gives [2,4] only.
C10_MaximalRuns ==
  pcFold = "returned" =>
    LET blocks == {retFolding[k] : k \in 1..Len(retFolding)}
        H == ClaimHidden(argDocument, MapRegions(argRegions))
    IN  /\ blocks = ClaimMaximalRuns(H)
        /\ Cardinality(blocks) = Len(retFolding)
        /\ \A b \in blocks :
             /\ \A l \in b.start..b.end : l \in H
             /\ (b.start - 1) \notin H
             /\ (b.end + 1) \notin H
        /\ \A b, c \in blocks : b # c => (b.end + 1 < c.start \/ c.end + 1 < b.start)
        /\ \A l \in H :
             (l - 1 \in H \/ l + 1 \in H) => \E b \in blocks : b.start <= l /\ l <= b.end
        /\ (argDocument = ScenarioText /\ argRegions = <<LspRange(2, 0, 3, 0)>>)
             => retFolding = <<FoldingRange(2, 4)>>

\* The scenario: lines 0, 2, 4 are directives, region 2-3 is inactive, [2,4] is returned.
C10_Witness ==
  /\ pcFold = "returned"
  /\ argDocument = ScenarioText
  /\ argRegions = <<LspRange(2, 0, 3, 0)>>
  /\ DirectiveLines(argDocument) = {0, 2, 4}
  /\ retFolding = <<FoldingRange(2, 4)>>

(***************************************************************************)
(* Claims about the life cycle (checked under LifeSpec).                   *)
(***************************************************************************)
DocOfKey(k) == CHOOSE d \in Docs : DocKey(d) = k
ActivationStarted == handlers[ActivationId].pc # "idle"

\* C15: the folding provider answers with the empty list whenever the mode is visible,
\* and in hidden and hiddenFolded modes with exactly the fold blocks (the maximal runs
\* of 2 or more hidden lines) of the queried document's text and the cache entry held
\* at the time of the query.
C15_ProviderReturnsBlocks ==
  \A x \in EffectSet :
    x.op = "provide" =>
      LET t == text[DocOfKey(x.key)]
          ranges == CacheGet(cache, x.key)
      IN  /\ mode = "visible" => x.folding = <<>>
          /\ mode \in {"hidden", "hiddenFolded"} =>
               /\ RangeSet(x.folding) = ClaimMaximalRuns(ClaimHidden(t, ranges))
               /\ x.folding = collectHiddenFoldingRanges(t, ranges)

\* In hidden mode the provider is queried for a document with cached regions and
\* answers with a block.
C15_Witness ==
  \E x \in EffectSet :
    /\ x.op = "provide"
    /\ mode = "hidden"
    /\ CacheGet(cache, x.key) # <<>>
    /\ x.folding # <<>>

\* The step in which the host activates the extension.
ActivationStep == handlers[ActivationId].pc = "idle" /\ handlers'[ActivationId].pc # "idle"

\* What every toggle does to the stored value, what holds between toggles, and what a
\* restart finds: common to both readings of C16.
PersistedFollowsMode ==
  /\ [](\A x \in EffectSet :
          (x.kind = "toggle" /\ x.op = "persist") => stored = x.mode /\ stored = mode)
  /\ []((ActivationStarted /\ \A id \in 1..MaxHandlers :
                                handlers[id].kind = "toggle" => ~InFlight(id))
          => stored = mode)
  /\ []((lastRun.n > 0 /\ ActivationStarted /\ lastRun.mode \in ModeSet /\ ToggleCount = 0)
          => mode = lastRun.mode)

C17_ModeIsOneOfThree == mode \in ModeSet

\* C18: a step changes the cache only if it is a notification handler's write, which
\* changes the entry of that handler's document and no other, or the shutdown (the
\* deactivation, or the end of the extension host); toggles, text edits, active-view
\* switches, configuration changes, view openings and closings and provider queries
\* leave every entry as it was.
C18_CacheFrame ==
  [][cache' # cache =>
       \/ \E x \in {effects'[k] : k \in 1..Len(effects')} :
            /\ x.kind = "notify"
            /\ x.op = "write"
            /\ \A k \in DocKeys \ {x.key} : cache'[k] = cache[k]
       \/ ~deactivated /\ deactivated'
       \/ lastRun'.n # lastRun.n]_vars

\* With regions cached for a document, its view is closed and a configuration change
\* has just been handled: the entry is still there.
C18_Witness ==
  /\ \E k \in DocKeys : CacheGet(cache, k) # <<>> /\ cache[k] = lastNotified[k]
  /\ \E x \in EffectSet : x.kind = "config"
  /\ visible = {}
  /\ ~deactivated

\* C19 (as claimed): after shutdown the region cache is empty and no decoration style
\* is live.
C19_CleanAfterShutdown ==
  deactivated =>
    /\ \A k \in DocKeys : cache[k] = NoEntry
    /\ lastDecoration = Null
    /\ styles.live = 0

\* The derived opacity: the local opacity unless the mode is visible, then clangd's.
DerivedOpacity(m, c) ==
  OpacityToString(IF m = "visible" THEN c.clangdOpacity ELSE c.opacity)

\* C20: at most one decoration style is live at any time, and it is the one
\* $lastDecoration refers to; no style is disposed twice; a step of a running
\* extension leaves the style alone when the derived opacity equals that of the last
\* style, and a step that replaces the style makes it the style of the derived
\* opacity, the old one disposed before the new one is created.
C20_OneLiveStyle ==
  /\ [](/\ styles.live <= 1
        /\ styles.peak <= 1
        /\ ~styles.twice
        /\ lastDecoration # Null => styles.live = 1 /\ ~styles.disposed
        /\ lastDecoration = Null => styles.live = 0)
  /\ [][(deactivated' = deactivated /\ lastRun' = lastRun) =>
          /\ (lastDecoration # Null /\ lastOpacity = DerivedOpacity(mode', config'))
               => lastDecoration' = lastDecoration /\ styles' = styles
          /\ lastDecoration' # lastDecoration
               => /\ lastDecoration' = DerivedOpacity(mode', config')
                  /\ lastOpacity' = DerivedOpacity(mode', config')
                  /\ styles'.live = 1]_vars

\* The configured opacity changed and the handler has replaced the style: one is live.
C20_Witness ==
  /\ \E x \in EffectSet : x.kind = "config"
  /\ config.opacity = 50
  /\ mode # "visible"
  /\ lastDecoration = "0.5"
  /\ styles.live = 1

(***************************************************************************)
(* The directive-scanner specification: the scan of collectHiddenFolding-  *)
(* Ranges applied to every one-line document over ScanChars of at most     *)
(* MaxLineLen characters and every document of at most MaxLines sample     *)
(* lines.                                                                  *)
(***************************************************************************)
LinePlainElse == <<"e", "l", "s", "e">>
LineIfx == <<"#", "i", "f", "x">>
LineIndentedIfdef == <<" ", "#", " ", "i", "f", "d", "e", "f", " ", "x">>
LineTabEndif == <<"\t", "#", "\t", "e", "n", "d", "i", "f">>
LineElif == <<"#", "e", "l", "i", "f", " ", "1">>
LineIfndef == <<"#", "i", "f", "n", "d", "e", "f", " ", "x">>

ScanChars == {" ", "#", "i", "f", "x"}
ScanLines ==
  {LineIf1, LineIntX, LineElse, LineEndif, LinePlainElse, LineIfx, LineIndentedIfdef,
   LineTabEndif, LineElif, LineIfndef}
ScanDocuments ==
  {<<l>> : l \in SeqsUpTo(ScanChars, MaxLineLen)}
    \cup SeqsUpTo(ScanLines, MaxLines) \cup {ScenarioText}

ScanInit ==
  /\ Loaded
  /\ stored = Undefined
  /\ config.mode = "visible"
  /\ clangdPresent
  /\ argDocument \in ScanDocuments
  /\ argRegions = <<>>
  /\ retFolding = <<>>
  /\ pcFold = "scanArgs"
  /\ argRanges = <<>>
  /\ retDirectives = {}

\* Every line of the document is tested against the directive expression.
ScanDirectives ==
  /\ pcFold = "scanArgs"
  /\ retDirectives' = DirectiveLines(argDocument)
  /\ pcFold' = "scanned"
  /\ UNCHANGED <<progVars, envVars, ghostVars, lifeVars, argDocument, argRegions, retFolding,
               argRanges>>

ScanSpec == ScanInit /\ [][ScanDirectives]_vars

(***************************************************************************)
(* Claims about the directive scanner (checked under ScanSpec).            *)
(***************************************************************************)
\* One of the six keywords starts at position p of s.
ClaimKeywordStarts(s, p) ==
  \E k \in Keywords :
    /\ p + Len(k) - 1 <= Len(s)
    /\ \A j \in 1..Len(k) : s[p + j - 1] = k[j]

\* As claimed: behind the leading whitespace, and behind a "#" with the spaces that
\* follow it if there is one, the line starts with one of the keywords.
ClaimOptionalHash(s) ==
  \E w \in 0..Len(s) :
    /\ \A j \in 1..w : s[j] \in WhitespaceChars
    /\ w + 1 <= Len(s)
    /\ s[w + 1] \notin WhitespaceChars
    /\ \/ ClaimKeywordStarts(s, w + 1)
       \/ /\ s[w + 1] = "#"
          /\ \E p \in (w + 2)..Len(s) :
               /\ \A j \in (w + 2)..(p - 1) : s[j] = " "
               /\ s[p] # " "
               /\ ClaimKeywordStarts(s, p)

\* The line is whitespace, a "#", whitespace, and a keyword at which the line ends or
\* after which a character follows that is no word character.
ClaimHashAndWholeKeyword(s) ==
  \E h \in 1..Len(s) :
    /\ s[h] = "#"
    /\ \A j \in 1..(h - 1) : s[j] \in WhitespaceChars
    /\ \E p \in (h + 1)..Len(s) :
         /\ \A j \in (h + 1)..(p - 1) : s[j] \in WhitespaceChars
         /\ \E k \in Keywords :
              /\ p + Len(k) - 1 <= Len(s)
              /\ \A j \in 1..Len(k) : s[p + j - 1] = k[j]
              /\ (p + Len(k) > Len(s) \/ s[p + Len(k)] \notin WordChars)

\* C22 (as claimed): the scanner flags exactly the lines that, behind leading
\* whitespace and an optional "#" with optional spaces, start with a keyword.
C22_OptionalHashOriginal ==
  pcFold = "scanned" =>
    retDirectives
      = {i \in 0..(Len(argDocument) - 1) : ClaimOptionalHash(argDocument[i + 1])}

\* C22 (amended): the scanner flags exactly the lines made of optional whitespace, a
\* "#", optional whitespace and a whole keyword; for the scenario's five lines it
\* flags 0, 2 and 4, and for a document with no such line it flags nothing.
C22_HashAndWholeKeyword ==
  pcFold = "scanned" =>
    /\ retDirectives
         = {i \in 0..(Len(argDocument) - 1) : ClaimHashAndWholeKeyword(argDocument[i + 1])}
    /\ argDocument = ScenarioText => retDirectives = {0, 2, 4}
    /\ (\A i \in 1..Len(argDocument) : ~ClaimHashAndWholeKeyword(argDocument[i]))
         => retDirectives = {}

C22_Witness ==
  /\ pcFold = "scanned"
  /\ argDocument = <<LinePlainElse, LineIndentedIfdef, LineIfx>>
  /\ retDirectives = {1}

(***************************************************************************)
(* The filter specification: the middleware that the extension installs    *)
(* on the language client, applied in every mode to every document of at   *)
(* most MaxLines lines and every result of the client's own provider of    *)
(* at most MaxRanges folding ranges, or no result.                         *)
(***************************************************************************)
\* What the client's own provider (or next) resolved to: an array, or undefined/null.
NoResult == [present |-> FALSE, ranges |-> <<>>]
Result(ranges) == [present |-> TRUE, ranges |-> ranges]

\* The filter's test with the line-count guard left out of the "keep" branch.
KeepRangeInDocumentOnly(t, r) ==
  r.start < Len(t) /\ ~PREPROCESSOR_REGEX(t[r.start + 1])

\* The callback of ranges.filter (l.142-145).
KeepRange(t, r) ==
  IF r.start >= Len(t) THEN TRUE ELSE ~PREPROCESSOR_REGEX(t[r.start + 1])

RECURSIVE FilterRanges(_, _)
\* Array.prototype.filter with KeepRange.
FilterRanges(t, ranges) ==
  IF ranges = <<>> THEN <<>>
  ELSE LET rest == FilterRanges(t, Tail(ranges))
       IN  IF KeepRange(t, Head(ranges)) THEN <<Head(ranges)>> \o rest ELSE rest

\* middleware.provideFoldingRanges (l.130-146) in mode m, for text t and result res.
middlewareProvideFoldingRanges(m, t, res) ==
  IF m = "visible" \/ ~res.present
    THEN (IF res.present THEN res.ranges ELSE <<>>)
    ELSE FilterRanges(t, res.ranges)

FilterDocuments == SeqsUpTo({LineIf1, LineIntX}, MaxLines) \cup {ScenarioText}
ClientRanges ==
  {FoldingRange(a, a + 1) : a \in 0..MaxLine} \cup {FoldingRange(0, MaxLine)}
ClientResults == {NoResult} \cup {Result(q) : q \in SeqsUpTo(ClientRanges, MaxRanges)}

FilterInit ==
  /\ \E m \in ModeSet : WindowInMode(m)
  /\ stored = mode
  /\ config \in [mode : {"visible"}, opacity : {0}, clangdOpacity : {55}]
  /\ clangdPresent = TRUE
  /\ argDocument \in FilterDocuments
  /\ argRegions = <<>>
  /\ retFolding = <<>>
  /\ pcFold = "filterArgs"
  /\ argRanges \in ClientResults
  /\ retDirectives = {}

\* The editor asks the language client for folding ranges; the middleware answers.
FilterFolding ==
  /\ pcFold = "filterArgs"
  /\ retFolding' = middlewareProvideFoldingRanges(mode, argDocument, argRanges)
  /\ pcFold' = "filtered"
  /\ UNCHANGED <<progVars, envVars, ghostVars, lifeVars, argDocument, argRegions, argRanges,
               retDirectives>>

FilterSpec == FilterInit /\ [][FilterFolding]_vars

(***************************************************************************)
(* Claims about the filter (checked under FilterSpec).                     *)
(***************************************************************************)
\* The positions of the ranges of q that start at no directive line of t.
ClaimKept(t, q) ==
  {i \in 1..Len(q) : q[i].start >= Len(t) \/ q[i].start \notin DirectiveLines(t)}

\* out is q restricted to the positions K, in the order of q.
ClaimRestriction(out, q, K) ==
  /\ Len(out) = Cardinality(K)
  /\ \E f \in [1..Len(out) -> K] :
       /\ \A i, j \in 1..Len(out) : i < j => f[i] < f[j]
       /\ \A i \in 1..Len(out) : out[i] = q[f[i]]

\* C26: the filter returns the client's ranges unchanged in mode visible; in the
\* modes hidden and hiddenFolded it returns them, in their order, without those whose
\* start line is a directive line of the document (a start at or beyond the line
\* count is kept); a missing result yields the empty list.
C26_FilterDirectiveRanges ==
  pcFold = "filtered" =>
    /\ ~argRanges.present => retFolding = <<>>
    /\ (argRanges.present /\ mode = "visible") => retFolding = argRanges.ranges
    /\ (argRanges.present /\ mode \in {"hidden", "hiddenFolded"})
         => ClaimRestriction(retFolding, argRanges.ranges,
                             ClaimKept(argDocument, argRanges.ranges))

C26_Witness ==
  /\ pcFold = "filtered"
  /\ mode = "hidden"
  /\ argDocument = <<LineIf1, LineIntX>>
  /\ argRanges = Result(<<FoldingRange(2, 3), FoldingRange(0, 1)>>)
  /\ retFolding = <<FoldingRange(2, 3)>>

(***************************************************************************)
(* Claims about stale folds and redecoration (checked under Spec).         *)
(***************************************************************************)
\* C23 (as claimed): every fold command carries exactly the start lines of the fold
\* blocks of the cache entry and document text that are current when it is issued.
C23_FoldLinesCurrent ==
  \A x \in EffectSet : x.op = "fold" => x.lines = CurrentLines(x.ed)

\* The effect with which a handler reaches the point where the claim has it refresh
\* every view: the toggle's signal, the first effect of an active-view, text-edit or
\* configuration handler, the first effect of activation after initialization.
RefreshPoint(x) ==
  \/ x.kind = "toggle" /\ x.op = "fire"
  \/ x.kind \in {"activeSwitch", "textEdit", "config"} /\ x.prev = ""
  \/ x.kind = "activate" /\ x.op # "persist" /\ x.prev \in {"", "persist"}

\* C24 (as claimed): on startup, a toggle, a text edit to the active view's document,
\* an active-view switch and a configuration change, the handler re-decorates every
\* visible supported view, the active view first.
C24_RefreshAllOnEveryEvent ==
  \A x \in EffectSet :
    RefreshPoint(x) =>
      /\ \A e \in visible :
           IsSupported(e) =>
             \E y \in EffectSet : y.h = x.h /\ y.op = "decorate" /\ y.ed = e
      /\ \A k \in 1..Len(effects) :
           (effects[k].op = "decorate" /\ active # NoEditor /\ IsSupported(active)
              /\ active \in visible)
             => \E j \in 1..k : effects[j].op = "decorate" /\ effects[j].ed = active
                                  /\ \A i \in 1..(j - 1) : effects[i].op # "decorate"

\* C27 (as claimed): in a step in which a handler replaces the live style, every
\* visible supported view holds ranges under the new style when the handler's
\* synchronous part ends (no handler redecorates after it has waited).
C27_ReplacedStyleReapplied ==
  [][(lastDecoration' # lastDecoration /\ lastDecoration' # Null)
       => \A e \in visible' : IsSupported(e) => e \in decorated']_vars

(***************************************************************************)
(* Claims about a window without the language client (checked under       *)
(* LifeSpec).                                                              *)
(***************************************************************************)
\* The start lines of the fold blocks that the directive lines of t alone give.
ClaimDirectiveBlockStarts(t) == {r.start : r \in ClaimMaximalRuns(DirectiveLines(t))}

\* C21: when there is no language client at startup the activation completes and
\* registers everything but the subscription, no notification handler ever runs, the
\* cache holds no entry for any document, and toggles, decorations, the folding
\* provider, unfolds and auto-fold work on the directive lines alone.
C21_NoClientDirectivesOnly ==
  ~clangdPresent =>
    /\ ~subscribed
    /\ \A k \in DocKeys : cache[k] = NoEntry
    /\ \A id \in HandlerIds : handlers[id].kind # "notify"
    /\ (handlers[ActivationId].pc = "done" /\ ~deactivated) => registered
    /\ \A x \in EffectSet :
         LET t == text[EditorDocument(x.ed)]
         IN  /\ x.op = "decorate" =>
                  RangeSet(x.ranges)
                    = IF x.mode = "visible" THEN {} ELSE DirectiveLineRanges(t)
             /\ x.op \in {"compute", "unfold"} => x.lines = ClaimDirectiveBlockStarts(t)
             /\ x.op = "fold" => \E u \in EditedTexts(EditorDocument(x.ed)) :
                                   x.lines = ClaimDirectiveBlockStarts(u)
    /\ \A x \in EffectSet :
         x.op = "provide" =>
           RangeSet(x.folding)
             = IF mode = "visible" THEN {}
               ELSE ClaimMaximalRuns(DirectiveLines(text[DocOfKey(x.key)]))
    /\ \A x \in EffectSet :
         (x.op = "advance" /\ x.previousMode \in ModeSet)
           => x.mode = CycleNext(x.previousMode)

\* Without a language client a fold command is issued for a block of directive lines.
C21_Witness ==
  /\ ~clangdPresent
  /\ \E x \in EffectSet : x.op = "fold" /\ x.lines # {}

(***************************************************************************)
(* The specification with fair scheduling: the host answers every request  *)
(* and every timer expires (the event loop runs a pending completion or a  *)
(* due timer), while notifications, commands and view changes may stop.    *)
(***************************************************************************)
\* Fewer than MaxFairHandlers handlers have been started.
FairSlotFree ==
  Cardinality({id \in 1..MaxHandlers : handlers[id].pc # "idle"}) < MaxFairHandlers

FairNext ==
  \/ Activate
  \/ FairSlotFree /\ \E d \in Docs, params \in RegionLists : Notification(d, params)
  \/ FairSlotFree /\ Toggle
  \/ FairSlotFree /\ \E e \in Editors : ChangeActiveEditor(e)
  \/ \E e \in Editors : OpenEditor(e)
  \/ \E e \in Editors : CloseEditor(e)
  \/ HostAnswer
  \/ TimerExpires

\* Weak fairness of HostAnswer, WF_vars(HostAnswer), written out: HostAnswer is
\* enabled exactly when a request is pending, and it always changes the state.
HostAnswerFair == []<>(queue = <<>>) \/ []<><<HostAnswer>>_vars

FairSpec == Init /\ [][FairNext]_vars /\ HostAnswerFair /\ WF_vars(TimerExpires)

(***************************************************************************)
(* Claims about completion (checked under FairSpec).                       *)
(***************************************************************************)
\* Handler id writes the cache entry of view e's document in this step.
WriteBy(id, e) ==
  \E x \in EffectSet : x.h = id /\ x.op = "write" /\ x.key = DocKey(EditorDocument(e))
\* Handler id issues a fold command for view e in this step.
FoldBy(id, e) == \E x \in EffectSet : x.h = id /\ x.op = "fold" /\ x.ed = e

\* Every notification handler eventually finishes.
ClaimNotifyFinishes ==
  \A id \in 1..MaxHandlers :
    (handlers[id].kind = "notify" /\ InFlight(id)) ~> (handlers[id].pc = "done")

\* The regions of the notification that arrived last for a document, after which
\* there is no later one, end up in the cache.
ClaimLastRegionsEndUpInCache ==
  \A k \in DocKeys : <>[](lastNotified[k].present => cache[k] = lastNotified[k])

\* When a handler has written a document's cache entry in mode hiddenFolded and the
\* document has a visible supported view with fold blocks, then a fold command for
\* that view follows unless the mode is left.
ClaimFoldIssued ==
  \A id \in 1..MaxHandlers : \A e \in Editors :
    (/\ WriteBy(id, e)
     /\ mode = "hiddenFolded"
     /\ e \in visible
     /\ IsSupported(e)
     /\ CurrentLines(e) # {})
      ~> (FoldBy(id, e) \/ mode # "hiddenFolded")

\* C25 (as claimed): with host answers and timers scheduled fairly, every notification
\* handler eventually finishes, its regions or a later notification's end up in the
\* cache, and in mode hiddenFolded a fold command is eventually issued for a visible
\* supported view with fold blocks.
C25_RunsToCompletion ==
  /\ ClaimNotifyFinishes
  /\ ClaimLastRegionsEndUpInCache
  /\ ClaimFoldIssued

====
